---- MODULE Spec2Model ----
(***************************************************************************)
(* Model of scraper_extended.py: the three field normalizers, the per-block *)
(* candidate filter and record extractor of scrape_site_extended and        *)
(* scrape_mytek, the category/page harvesting loops, and the final          *)
(* deduplication pass of main().                                            *)
(*                                                                          *)
(* Text is modelled as a sequence of one-character strings.  Characters     *)
(* outside ASCII are written by name ("e_acute", "a_grave", "dal", "teh").  *)
(* A decimal value is the exact fraction [n |-> numerator, d |-> 10^k].     *)
(***************************************************************************)
EXTENDS Integers, Sequences, FiniteSets, TLC

VARIABLES
    pc,             \* where main() and the scraper it runs stand
    site,           \* index in Scrapers of the scraper running
    cat,            \* index of the category entry being harvested
    page,           \* page number within the category
    divs_left,      \* divs of the fetched page not yet evaluated
    page_products,  \* records appended from the current page
    products,       \* the running scraper's accumulation list
    requests,       \* every page request made, in order
    last_fetch,     \* how the last page request ended
    last_div,       \* the div evaluated last and what it came to
    all_products,   \* main()'s concatenation of the scrapers' lists
    unique,         \* the deduplicated list
    csv_rows,       \* the rows export_csv wrote
    norm_in,        \* the text handed to a field normalizer
    norm_out        \* the normalizer applied last and what it returned

(***************************************************************************)
(* Characters and strings                                                   *)
(***************************************************************************)
\* Values are records told apart by their kind: Python's None, a raised
\* ValueError, a float [kind, n, d], an int [kind, n], a regex match [kind, g].
None == [kind |-> "None"]
ValueError == [kind |-> "ValueError"]
Float(n, d) == [kind |-> "float", n |-> n, d |-> d]
PyInt(n) == [kind |-> "int", n |-> n]
Match(g) == [kind |-> "match", g |-> g]

Digits == <<"0", "1", "2", "3", "4", "5", "6", "7", "8", "9">>

\* \d of the re module
DigitChars == {Digits[i] : i \in 1..Len(Digits)}

IsDigit(c) == c \in DigitChars

\* \s of the re module
SpaceChars == {" ", "\t", "\n"}

IsSpace(c) == c \in SpaceChars

DigitVal(c) == (CHOOSE i \in 1..Len(Digits) : Digits[i] = c) - 1

RECURSIVE DigitsVal(_)
\* int() of a run of decimal digits
DigitsVal(s) ==
    IF s = <<>> THEN 0
    ELSE DigitsVal(SubSeq(s, 1, Len(s) - 1)) * 10 + DigitVal(s[Len(s)])

RECURSIVE Pow10(_)
Pow10(k) == IF k = 0 THEN 1 ELSE 10 * Pow10(k - 1)

\* s[i:j] of Python, on 1-based positions: the characters at i .. j-1
Slice(s, i, j) == SubSeq(s, i, j - 1)

\* the least position >= i of s holding a character outside the class, or Len(s)+1
RECURSIVE RunEnd(_, _, _)
RunEnd(s, i, class) ==
    IF i > Len(s) \/ s[i] \notin class THEN i ELSE RunEnd(s, i + 1, class)

\* whether word w stands in s at position i
StartsWithAt(s, i, w) ==
    /\ i + Len(w) - 1 <= Len(s)
    /\ \A k \in 1..Len(w) : s[i + k - 1] = w[k]

\* `w in s` of Python
Contains(s, w) == \E i \in 1..(Len(s) + 1) : StartsWithAt(s, i, w)

(***************************************************************************)
(* float() and int() of Python                                              *)
(***************************************************************************)
IsDot(c) == c = "."

\* float(s) for s made of digits and periods: a value, or ValueError when s
\* has no digit or more than one period
PyFloat(s) ==
    LET dots == SelectSeq(s, IsDot)
        digs == SelectSeq(s, IsDigit)
        dot  == CHOOSE i \in 1..Len(s) : s[i] = "."
    IN  IF Len(digs) = 0 \/ Len(dots) > 1 \/ Len(digs) + Len(dots) # Len(s)
        THEN ValueError
        ELSE IF Len(dots) = 0
        THEN Float(DigitsVal(digs), 1)
        ELSE Float(DigitsVal(digs), Pow10(Len(s) - dot))

IsFloat(v) == v.kind = "float" /\ v.n \in Nat /\ v.d \in Nat \ {0}

IsInt(v) == v.kind = "int" /\ v.n \in Nat

\* comparisons of a decimal value with an integer
NumLt(v, k) == v.n < k * v.d
NumGt(v, k) == v.n > k * v.d
NumLe(v, k) == ~NumGt(v, k)
NumGe(v, k) == ~NumLt(v, k)

(***************************************************************************)
(* Field normalizers                                                        *)
(***************************************************************************)
IsPriceChar(c) == IsDigit(c) \/ c = "." \/ c = ","

CommaToDot(s) == [i \in 1..Len(s) |-> IF s[i] = "," THEN "." ELSE s[i]]

\* clean_price without the positivity test of line 42
clean_price_nonpositive(price_str) ==
    IF price_str = <<>> THEN None
    ELSE LET cleaned == CommaToDot(SelectSeq(price_str, IsPriceChar))
             val     == PyFloat(cleaned)
         IN  IF val = ValueError THEN None ELSE val

clean_price(price_str) ==
    IF price_str = <<>> THEN None
    ELSE LET cleaned == CommaToDot(SelectSeq(price_str, IsPriceChar))
             val     == PyFloat(cleaned)
         IN  IF val = ValueError THEN None
             ELSE IF NumGt(val, 0) THEN val ELSE None

\* the first match of (\d+\.?\d*) in s, or None
RatingSearch(s) ==
    IF \A i \in 1..Len(s) : ~IsDigit(s[i]) THEN None
    ELSE LET i == CHOOSE k \in 1..Len(s) :
                     IsDigit(s[k]) /\ \A m \in 1..(k - 1) : ~IsDigit(s[m])
             j == RunEnd(s, i, DigitChars)
             k == IF j <= Len(s) /\ s[j] = "." THEN j + 1 ELSE j
         IN  Match(Slice(s, i, RunEnd(s, k, DigitChars)))

clean_rating(rating_str) ==
    IF rating_str = <<>> THEN None
    ELSE LET match == RatingSearch(rating_str)
         IN  IF match = None THEN None
             ELSE LET val == PyFloat(match.g)
                  IN  IF val = ValueError THEN None
                      ELSE IF NumGe(val, 0) /\ NumLe(val, 5) THEN val ELSE None

\* the first match of (\d+) in s, or None
CountSearch(s) ==
    IF \A i \in 1..Len(s) : ~IsDigit(s[i]) THEN None
    ELSE LET i == CHOOSE k \in 1..Len(s) :
                     IsDigit(s[k]) /\ \A m \in 1..(k - 1) : ~IsDigit(s[m])
         IN  Match(Slice(s, i, RunEnd(s, i, DigitChars)))

clean_review_count(count_str) ==
    IF count_str = <<>> THEN None
    ELSE LET match == CountSearch(count_str)
         IN  IF match = None THEN None ELSE PyInt(DigitsVal(match.g))

(***************************************************************************)
(* Text operations of the block body                                        *)
(***************************************************************************)
Upper == <<"A", "B", "C", "D", "E", "F", "G", "H", "I", "J", "K", "L", "M", "N", "O", "P", "Q", "R", "S", "T", "U", "V", "W", "X", "Y", "Z", "E_ACUTE", "A_GRAVE">>

LowerOf == <<"a", "b", "c", "d", "e", "f", "g", "h", "i", "j", "k", "l", "m", "n", "o", "p", "q", "r", "s", "t", "u", "v", "w", "x", "y", "z", "e_acute", "a_grave">>

\* str.lower(), one character
Lower(c) ==
    IF \E i \in 1..Len(Upper) : Upper[i] = c
    THEN LowerOf[CHOOSE i \in 1..Len(Upper) : Upper[i] = c]
    ELSE c

LowerStr(s) == [i \in 1..Len(s) |-> Lower(s[i])]

\* str.strip()
Strip(s) ==
    IF \A i \in 1..Len(s) : IsSpace(s[i]) THEN <<>>
    ELSE LET a == CHOOSE i \in 1..Len(s) :
                     ~IsSpace(s[i]) /\ \A m \in 1..(i - 1) : IsSpace(s[m])
             b == CHOOSE i \in 1..Len(s) :
                     ~IsSpace(s[i]) /\ \A m \in (i + 1)..Len(s) : IsSpace(s[m])
         IN  SubSeq(s, a, b)

\* re.sub(r'\s+', ' ', s): the first character of a whitespace run becomes a
\* space, the rest of the run is dropped
Dropped == "dropped"

IsKept(c) == c # Dropped

CollapseSpaces(s) ==
    SelectSeq([i \in 1..Len(s) |->
                  IF ~IsSpace(s[i]) THEN s[i]
                  ELSE IF i > 1 /\ IsSpace(s[i - 1]) THEN Dropped
                  ELSE " "],
              IsKept)

\* An optional value: None, or Some(v)
Some(v) == [kind |-> "some", v |-> v]

\* The flattened text of a block: the characters of head followed by pad
\* further letters; only head can hold digits, currency markers or review words.
TextLen(text) == Len(text.head) + text.pad

PriceRunChars == DigitChars \cup SpaceChars \cup {",", "."}

\* (TND|DT|د\.ت) at position j
CurrencyAt(s, j) ==
    \/ StartsWithAt(s, j, <<"T", "N", "D">>)
    \/ StartsWithAt(s, j, <<"D", "T">>)
    \/ StartsWithAt(s, j, <<"dal", ".", "teh">>)

\* re.search(r'(\d+[\d\s,\.]*)\s*(TND|DT|د\.ت)', text): the leftmost digit whose
\* run of digits, spaces, commas and periods ends at a currency marker; group 1
\* is that run (it swallows the spaces before the marker).
PriceSearch(s) ==
    LET starts == {i \in 1..Len(s) :
                      IsDigit(s[i]) /\ CurrencyAt(s, RunEnd(s, i, PriceRunChars))}
    IN  IF starts = {} THEN None
        ELSE LET i == CHOOSE k \in starts : \A m \in starts : k <= m
             IN  Match(Slice(s, i, RunEnd(s, i, PriceRunChars)))

ReviewWords == {<<"a", "v", "i", "s">>, <<"r", "e", "v", "i", "e", "w", "s">>, <<"c", "o", "m", "m", "e", "n", "t", "a", "i", "r", "e", "s">>}

\* re.search(r'(\d+)\s*(avis|reviews|commentaires)', text, re.I); group 1
ReviewSearch(s) ==
    LET low    == LowerStr(s)
        starts == {i \in 1..Len(s) :
                      /\ IsDigit(s[i])
                      /\ \E w \in ReviewWords :
                            StartsWithAt(low,
                                RunEnd(s, RunEnd(s, i, DigitChars), SpaceChars), w)}
    IN  IF starts = {} THEN None
        ELSE LET i == CHOOSE k \in starts : \A m \in starts : k <= m
             IN  Match(Slice(s, i, RunEnd(s, i, DigitChars)))

\* re.match(r'^-?\d+%$', name)
IsPercent(name) ==
    LET t == IF name # <<>> /\ name[1] = "-" THEN Tail(name) ELSE name
    IN  /\ Len(t) >= 2
        /\ t[Len(t)] = "%"
        /\ \A i \in 1..(Len(t) - 1) : IsDigit(t[i])

(***************************************************************************)
(* urljoin(base_domain, href), for a base that is scheme://host             *)
(***************************************************************************)
Schemes == {<<"h", "t", "t", "p", "s", ":", "/", "/">>, <<"h", "t", "t", "p", ":", "/", "/">>, <<"j", "a", "v", "a", "s", "c", "r", "i", "p", "t", ":">>}

HasScheme(href) == \E p \in Schemes : StartsWithAt(href, 1, p)

Urljoin(base, href) ==
    IF HasScheme(href)
    THEN IF Contains(href, <<"[">>) /\ ~Contains(href, <<"]">>)
         THEN ValueError                         \* "Invalid IPv6 URL"
         ELSE Some(href)
    ELSE IF href = <<>> \/ href = <<"#">> THEN Some(base)
    ELSE IF href[1] \in {"/", "#", "?"} THEN Some(base \o href)
    ELSE Some(base \o <<"/">> \o href)

(***************************************************************************)
(* The gates of the block body                                              *)
(***************************************************************************)
MinTextLen == 20
MaxTextLen == 1500
MinNameLen == 5
MaxNameLen == 250
MinPrice == 1
MaxPrice == 100000

\* the non-product link patterns of scrape_site_extended
DenySite == {<<"#">>, <<"j", "a", "v", "a", "s", "c", "r", "i", "p", "t">>, <<"s", "t", "o", "r", "e", "/">>, <<"a", "d", "d", "-", "t", "o", "-", "c", "a", "r", "t">>, <<"c", "a", "t", "e", "g", "o", "r", "i", "e">>}

\* the non-product link patterns of scrape_mytek
DenyMytek == {<<"#">>, <<"j", "a", "v", "a", "s", "c", "r", "i", "p", "t">>, <<"c", "a", "t", "e", "g", "o", "r", "i", "e">>}

UIChrome == {
    <<"a", "j", "o", "u", "t", "e", "r", " ", "a", "u", " ", "p", "a", "n", "i", "e", "r">>,
    <<"v", "e", "n", "d", "u", " ", "p", "a", "r", " ", ":">>,
    <<"c", "o", "m", "p", "a", "r", "e">>,
    <<"l", "i", "s", "t", "e", " ", "d", "e", " ", "s", "o", "u", "h", "a", "i", "t", "s">>,
    <<"d", "e", "m", "a", "n", "d", "e", "r", " ", "u", "n", " ", "d", "e", "v", "i", "s">>,
    <<"e", "f", "f", "a", "c", "e", "r", " ", "l", "e", "s", " ", "f", "i", "l", "t", "r", "e", "s">>,
    <<"b", "o", "n", " ", "p", "l", "a", "n">>,
    <<"n", "e", "w", "s", "l", "e", "t", "t", "e", "r">>,
    <<"s", "a", "t", "i", "s", "f", "a", "i", "t", " ", "o", "u", " ", "r", "e", "m", "b", "o", "u", "r", "s", "e_acute">>,
    <<"g", "r", "a", "t", "u", "i", "t", "e", " ", "e", "n", " ", "4", "8", "h", " ", "a_grave", " ", "p", "a", "r", "t", "i", "r", " ", "d", "e", " ", "3", "0", "0", "d", "t">>,
    <<"j", "e", "u", "x", " ", "d", "e", " ", "c", "o", "n", "s", "t", "r", "u", "c", "t", "i", "o", "n">>,
    <<"l", "o", "i", "s", "i", "r", "s", " ", "c", "r", "e_acute", "a", "t", "i", "f", "s">> }

\* the length test with the lower bound exclusive
TextLengthRejectedStrict(n) == n <= MinTextLen \/ n > MaxTextLen

\* len(text) < 20 or len(text) > 1500
TextLengthRejected(n) == n < MinTextLen \/ n > MaxTextLen

LinkDenied(deny, link) == \E x \in deny : Contains(LowerStr(link), x)

\* the name tests with the chrome phrases compared case-sensitively
NameRejectedCaseSensitive(name) ==
    IF Len(name) < MinNameLen \/ Len(name) > MaxNameLen THEN "name_length"
    ELSE IF name \in UIChrome THEN "name_chrome"
    ELSE IF IsPercent(name) THEN "name_percent"
    ELSE "ok"

\* the three name tests, in order: the gate that rejects the name, or "ok"
NameRejected(name) ==
    IF Len(name) < MinNameLen \/ Len(name) > MaxNameLen THEN "name_length"
    ELSE IF LowerStr(name) \in UIChrome THEN "name_chrome"
    ELSE IF IsPercent(name) THEN "name_percent"
    ELSE "ok"

\* the price test with the lower bound exclusive
PriceRejectedStrict(price) ==
    \/ price = None
    \/ NumGt(price, MaxPrice)
    \/ ~NumGt(price, MinPrice)

\* not price or price > 100000 or price < 1
PriceRejected(price) ==
    \/ price = None
    \/ NumGt(price, MaxPrice)
    \/ NumLt(price, MinPrice)

\* the name element: a heading of the block, else a span or heading inside the
\* link, else the link itself; its text stripped and whitespace-collapsed
DeriveName(div) ==
    LET link_tag == div.link_tag.v
        elem_text == IF div.heading # None THEN div.heading.v
                     ELSE IF link_tag.inner # None THEN link_tag.inner.v
                     ELSE link_tag.text
    IN  CollapseSpaces(Strip(elem_text))

\* What evaluating one block comes to
Skip(gate) == [kind |-> "skip", gate |-> gate]
Raised == [kind |-> "raise"]
Built(product) == [kind |-> "record", product |-> product]

\* The body of the try block of one div, up to the assembled product
ExtractRecord(base_domain, site_name, deny, cat_name, div) ==
    LET text        == div.text
        price_match == PriceSearch(text.head)
    IN
    IF price_match = None THEN Skip("price_pattern")
    ELSE IF TextLengthRejected(TextLen(text)) THEN Skip("text_length")
    ELSE IF div.link_tag = None THEN Skip("link")
    ELSE LET joined == Urljoin(base_domain, div.link_tag.v.href) IN
    IF joined = ValueError THEN Raised
    ELSE LET link == joined.v IN
    IF LinkDenied(deny, link) THEN Skip("denylist")
    ELSE LET name == DeriveName(div) IN
    IF NameRejected(name) # "ok" THEN Skip(NameRejected(name))
    ELSE LET price == clean_price(price_match.g) IN
    IF PriceRejected(price) THEN Skip("price_range")
    ELSE LET rating == clean_rating(IF div.rating_elem # None
                                    THEN div.rating_elem.v ELSE <<>>)
             review_match == ReviewSearch(text.head)
             reviews == IF review_match # None
                        THEN clean_review_count(review_match.g) ELSE None
         IN  Built([Nom       |-> name,
                    Prix      |-> price,
                    Categorie |-> cat_name,
                    Note      |-> rating,
                    Nb_avis   |-> reviews,
                    En_stock  |-> "Oui",
                    Lien      |-> link,
                    Site      |-> site_name])

\* products.append(product) whatever the list holds
AppendAlways(list, product) == Append(list, product)

\* if not any(p['Lien'] == link for p in products): products.append(product)
AppendUnique(list, product) ==
    IF \E i \in 1..Len(list) : list[i].Lien = product.Lien
    THEN list
    ELSE Append(list, product)

(***************************************************************************)
(* The scrapers main() runs, with their tables.  scrape_tdiscount,          *)
(* scrape_darty, scrape_fnac and scrape_fatale all are scrape_site_extended *)
(* on a table of their own; the model follows the first of them and then    *)
(* scrape_mytek.  It keeps the first MaxCats entries of a category list and *)
(* caps pages_per_cat at MaxPages.  Category labels are written without     *)
(* accents.                                                                 *)
(***************************************************************************)
MaxCats == 2        \* category entries kept per scraper
MaxPages == 3       \* cap on pages_per_cat
MaxDivs == 2        \* divs found on one page

Cat(url, name) == [url |-> url, name |-> name]

scrape_tdiscount ==
    [site_name     |-> "Tdiscount",
     base_domain   |-> <<"h", "t", "t", "p", "s", ":", "/", "/", "w", "w", "w", ".", "t", "d", "i", "s", "c", "o", "u", "n", "t", ".", "t", "n">>,
     pages_per_cat |-> 6,
     categories    |-> << Cat("https://www.tdiscount.tn/informatique", "Informatique"),
                          Cat("https://www.tdiscount.tn/telephonie", "Telephonie"),
                          Cat("https://www.tdiscount.tn/beaute", "Beaute") >>]

\* scrape_mytek: one page per category, rendered by the browser
scrape_mytek ==
    [site_name     |-> "Mytek",
     base_domain   |-> <<"h", "t", "t", "p", "s", ":", "/", "/", "w", "w", "w", ".", "m", "y", "t", "e", "k", ".", "t", "n">>,
     pages_per_cat |-> 1,
     categories    |-> << Cat("https://www.mytek.tn/informatique", "Informatique"),
                          Cat("https://www.mytek.tn/telephonie-tunisie", "Telephonie"),
                          Cat("https://www.mytek.tn/electromenager", "Electromenager") >>]

Min(a, b) == IF a < b THEN a ELSE b

\* the scrapers followed, in main()'s call order
Scrapers == <<scrape_tdiscount, scrape_mytek>>

NumSites == Len(Scrapers)

IsMytek(s) == Scrapers[s].site_name = "Mytek"

Categories(s) == SubSeq(Scrapers[s].categories, 1, Min(MaxCats, Len(Scrapers[s].categories)))

PagesPerCat(s) == Min(Scrapers[s].pages_per_cat, MaxPages)

DenyOf(s) == IF IsMytek(s) THEN DenyMytek ELSE DenySite

\* page_url = f"{cat_url}?page={page}" if page > 1 else cat_url
PageUrl(cat_url, p) == IF p > 1 THEN cat_url \o "?page=" \o ToString(p) ELSE cat_url
(***************************************************************************)
(* The blocks a page may hold.  A block is what the body reads of a div:    *)
(* its flattened text, its first link with an href (the href, the first     *)
(* span or heading inside the link, the link's own text), its first         *)
(* heading, and its first rating element.                                   *)
(***************************************************************************)
Text(head, total) == [head |-> head, pad |-> total - Len(head)]

Link(href, inner, text) == Some([href |-> href, inner |-> inner, text |-> text])

Div(text, link_tag, heading, rating_elem) ==
    [text |-> text, link_tag |-> link_tag, heading |-> heading, rating_elem |-> rating_elem]

Letters(n) == [i \in 1..n |-> "a"]

MidLen == 2 * MinTextLen

BaseText == Text(<<"C", "a", "s", "q", "u", "e", " ", "1", "2", "9", ".", "9", "0", "0", " ", "T", "N", "D", " ", "1", "2", " ", "a", "v", "i", "s">>, MidLen)

BaseLink == Link(<<"/", "p", "1">>, None, <<"V", "o", "i", "r">>)

BaseName == <<"C", "a", "s", "q", "u", "e", " ", "X", "Y", "Z">>

BaseDiv == Div(BaseText, BaseLink, Some(BaseName), None)

\* texts at the edges of the length gate
EdgeTexts ==
    {Text(<<"1", "2", "9", ".", "9", "0", "0", " ", "T", "N", "D">>, n) :
        n \in {MinTextLen - 1, MinTextLen, MaxTextLen, MaxTextLen + 1}}

\* texts of middle length whose price is at an edge, unparseable or absent
PriceTexts ==
    {Text(h, MidLen) : h \in {
        <<"1", " ", "D", "T">>, <<"0", ".", "9", "9", " ", "D", "T">>, <<"1", ",", "5", "D", "T">>, <<"1", "0", "0", "0", "0", "0", " ", "D", "T">>, <<"1", "0", "0", "0", "0", "0", ",", "5", " ", "D", "T">>,
        <<"1", "0", "0", "0", "0", "1", " ", "T", "N", "D">>, <<"1", ".", "2", "9", "9", ",", "0", "0", "0", " ", "T", "N", "D">>, <<"0", " ", "D", "T">>, <<"P", "r", "o", "m", "o", " ", "-", "1", "5", "%">>, <<"1", "2", " ", "d", "t">>,
        <<"R", "e", "f", " ", "5", "5", " ", "x", " ", "1", " ", "2", "9", "9", " ", "D", "T", " ", "3", " ", "A", "v", "i", "s">>, <<"1", "2", "9", " ", "dal", ".", "teh">> }}

Hrefs == {
    <<"/", "p", "1">>, <<"/", "p", "2">>, <<"p", "3">>, <<"h", "t", "t", "p", "s", ":", "/", "/", "w", "w", "w", ".", "m", "y", "t", "e", "k", ".", "t", "n", "/", "p", "1">>, <<"h", "t", "t", "p", "s", ":", "/", "/", "w", "w", "w", ".", "m", "y", "t", "e", "k", ".", "t", "n", "/", "p", "2">>,
    <<"#">>, <<"#", "a", "v", "i", "s">>, <<"j", "a", "v", "a", "s", "c", "r", "i", "p", "t", ":", "v", "o", "i", "d", "(", "0", ")">>, <<"/", "s", "t", "o", "r", "e", "/", "x">>, <<"/", "S", "T", "O", "R", "E", "/", "x">>,
    <<"/", "a", "d", "d", "-", "t", "o", "-", "c", "a", "r", "t", "/", "1">>, <<"/", "c", "a", "t", "e", "g", "o", "r", "i", "e", "/", "t", "v">>, <<"h", "t", "t", "p", ":", "/", "/", "[">> }

GoodNames == {
    <<"C", "a", "s", "q", "u", "e", " ", "X", "Y", "Z">>, <<"C", "a", "s", "q", "u", "e", " ", "A", "B", "C">>, Letters(MinNameLen), Letters(MaxNameLen),
    <<"C", "o", "m", "p", "a", "r", "e", "r">>, <<"-", "1", "5", "%", " ", "p", "r", "o", "m", "o">> }

BadNames == {
    Letters(MinNameLen - 1), Letters(MaxNameLen + 1), <<>>,
    <<"c", "o", "m", "p", "a", "r", "e">>, <<"C", "O", "M", "P", "A", "R", "E">>, <<"A", "j", "o", "u", "t", "e", "r", " ", "a", "u", " ", "p", "a", "n", "i", "e", "r">>, <<"S", "a", "t", "i", "s", "f", "a", "i", "t", " ", "o", "u", " ", "R", "e", "m", "b", "o", "u", "r", "s", "e_acute">>,
    <<"-", "1", "5", "%">>, <<"2", "0", "%">>, <<"-", "1", "0", "0", "%">>, <<"1", "2", "3", "4", "5", "%">> }

\* one field of the base block changed at a time
VariedDivs ==
    {[BaseDiv EXCEPT !.text = t] : t \in EdgeTexts \cup PriceTexts}
    \cup {[BaseDiv EXCEPT !.link_tag = Link(h, None, <<"V", "o", "i", "r">>)] : h \in Hrefs}
    \cup {[BaseDiv EXCEPT !.link_tag = None]}
    \cup {[BaseDiv EXCEPT !.heading = Some(n)] : n \in GoodNames \cup BadNames}
    \cup {[BaseDiv EXCEPT !.heading = None,
                          !.link_tag = Link(<<"/", "p", "1">>, Some(<<" ", " ", "C", "a", "s", "q", "u", "e", " ", "\n", " ", " ", "X", "Y", "Z", " ">>), <<"V", "o", "i", "r">>)],
          [BaseDiv EXCEPT !.heading = None,
                          !.link_tag = Link(<<"/", "p", "1">>, None, <<"\t", "C", "a", "s", "q", "u", "e", " ", "d", "u", " ", "l", "i", "e", "n", "\n">>)],
          [BaseDiv EXCEPT !.heading = None]}
    \cup {[BaseDiv EXCEPT !.rating_elem = Some(r)] : r \in {<<"N", "o", "t", "e", " ", "4", ".", "5", "/", "5">>, <<"1", "2", " ", "a", "v", "i", "s">>, <<"5">>}}

\* a bad name together with a price out of range, or with a denied link
BadNameDivs ==
    {[BaseDiv EXCEPT !.heading = Some(n), !.text = Text(<<"1", "0", "0", "0", "0", "1", " ", "T", "N", "D">>, MidLen)] :
        n \in BadNames}
    \cup {[BaseDiv EXCEPT !.heading = Some(n), !.link_tag = Link(<<"/", "s", "t", "o", "r", "e", "/", "x">>, None, <<"V", "o", "i", "r">>)] :
        n \in BadNames}

\* the few blocks served while all of main() is followed
PipelineBlocks == {
    [BaseDiv EXCEPT !.link_tag = Link(<<"h", "t", "t", "p", "s", ":", "/", "/", "w", "w", "w", ".", "m", "y", "t", "e", "k", ".", "t", "n", "/", "p", "1">>, None, <<"V", "o", "i", "r">>)],
    [BaseDiv EXCEPT !.link_tag = Link(<<"h", "t", "t", "p", "s", ":", "/", "/", "w", "w", "w", ".", "m", "y", "t", "e", "k", ".", "t", "n", "/", "p", "2">>, None, <<"V", "o", "i", "r">>),
                    !.heading = Some(<<"C", "a", "s", "q", "u", "e", " ", "A", "B", "C">>)],
    [BaseDiv EXCEPT !.link_tag = Link(<<"h", "t", "t", "p", ":", "/", "/", "[">>, None, <<"V", "o", "i", "r">>)],
    [BaseDiv EXCEPT !.text = Text(<<"P", "r", "o", "m", "o", " ", "-", "1", "5", "%">>, MidLen)] }

Blocks == VariedDivs \cup BadNameDivs \cup PipelineBlocks
(***************************************************************************)
(* The final pass of main()                                                 *)
(***************************************************************************)
\* the pass with a later record replacing the one already kept for its link
DeduplicateKeepLast(L) ==
    LET f[i \in 0..Len(L)] ==
            IF i = 0 THEN <<>>
            ELSE IF \E k \in 1..Len(f[i - 1]) : f[i - 1][k].Lien = L[i].Lien
            THEN [k \in 1..Len(f[i - 1]) |->
                     IF f[i - 1][k].Lien = L[i].Lien THEN L[i] ELSE f[i - 1][k]]
            ELSE Append(f[i - 1], L[i])
    IN  f[Len(L)]

\* the pass written as removal from the list being iterated: the record that
\* follows a removed one is stepped over
RECURSIVE RemoveWhileIterating(_, _, _)
RemoveWhileIterating(L, i, seen) ==
    IF i > Len(L) THEN L
    ELSE IF L[i].Lien \in seen
    THEN RemoveWhileIterating(SubSeq(L, 1, i - 1) \o SubSeq(L, i + 1, Len(L)), i + 1, seen)
    ELSE RemoveWhileIterating(L, i + 1, seen \cup {L[i].Lien})

DeduplicateInPlace(L) == RemoveWhileIterating(L, 1, {})

\* unique, seen = [], set(); for p in all_products: if p['Lien'] not in seen: ...
Deduplicate(L) ==
    LET f[i \in 0..Len(L)] ==
            IF i = 0 THEN [unique |-> <<>>, seen |-> {}]
            ELSE IF L[i].Lien \notin f[i - 1].seen
            THEN [unique |-> Append(f[i - 1].unique, L[i]),
                  seen   |-> f[i - 1].seen \cup {L[i].Lien}]
            ELSE f[i - 1]
    IN  f[Len(L)].unique

\* the row export_csv writes for a product
CsvRow(p) == <<p.Nom, p.Prix, p.Categorie, p.Note, p.Nb_avis, p.En_stock, p.Lien, p.Site>>

(***************************************************************************)
(* The program                                                              *)
(***************************************************************************)
vars == <<pc, site, cat, page, divs_left, page_products, products, requests,
          last_fetch, last_div, all_products, unique, csv_rows, norm_in, norm_out>>

scrapeVars == <<cat, page, divs_left, page_products, products, requests,
                last_fetch, last_div>>
mainVars == <<all_products, unique, csv_rows>>
normVars == <<norm_in, norm_out>>

NoDiv == [kind |-> "none", id |-> 0, site |-> 0, cat |-> 0]

Idle ==
    /\ site = 1
    /\ cat = 1
    /\ page = 1
    /\ divs_left = 0
    /\ page_products = 0
    /\ products = <<>>
    /\ requests = <<>>
    /\ last_fetch = "none"
    /\ last_div = NoDiv
    /\ all_products = <<>>
    /\ unique = <<>>
    /\ csv_rows = <<>>

Init ==
    /\ pc = "call"
    /\ Idle
    /\ norm_in = <<>>
    /\ norm_out = [fn |-> "none", res |-> None]

\* the loop position after page p of category c: the next page, or the next
\* category entry, or the end of the category loop
NextCategory(s, c) ==
    IF c < Len(Categories(s))
    THEN [pc |-> "fetch", cat |-> c + 1, page |-> 1]
    ELSE [pc |-> "return", cat |-> c + 1, page |-> 1]

NextPage(s, c, p) ==
    IF p < PagesPerCat(s)
    THEN [pc |-> "fetch", cat |-> c, page |-> p + 1]
    ELSE NextCategory(s, c)

\* the page-level handler fetching the failed page again
AfterPageErrorRetry(s, c, p) == [pc |-> "fetch", cat |-> c, page |-> p]

\* except Exception: logger.warning(...); continue   (the page loop)
AfterPageError(s, c, p) == NextPage(s, c, p)

\* the end of a page with the empty-page stop applied to the first page too
AfterScanStopOnFirst(s, c, p, found) ==
    IF found = 0 THEN NextCategory(s, c) ELSE NextPage(s, c, p)

\* if page_products == 0 and page > 1: break   (else the next page)
AfterScan(s, c, p, found) ==
    IF found = 0 /\ p > 1 THEN NextCategory(s, c) ELSE NextPage(s, c, p)

\* the block-level error leaving the div loop
AfterBlockErrorAbort(left) == 0

\* except Exception: continue   (the div loop): the divs still to evaluate
AfterBlockError(left) == left - 1

Goto(pos) ==
    /\ pc' = pos.pc
    /\ cat' = pos.cat
    /\ page' = pos.page

Request(s, c, p) ==
    [site |-> s, cat |-> c, page |-> p, url |-> PageUrl(Categories(s)[c].url, p)]

\* main() calls the next scraper
CallScraper ==
    /\ pc = "call"
    /\ products' = <<>>
    /\ IF IsMytek(site)
       THEN /\ pc' = "setup"
            /\ UNCHANGED <<cat, page>>
       ELSE Goto(IF Len(Categories(site)) > 0
                 THEN [pc |-> "fetch", cat |-> 1, page |-> 1]
                 ELSE [pc |-> "return", cat |-> 1, page |-> 1])
    /\ UNCHANGED <<site, divs_left, page_products, requests, last_fetch, last_div>>
    /\ UNCHANGED <<mainVars, normVars>>

\* session.get, raise_for_status, BeautifulSoup, find_all('div') succeed
FetchPage ==
    /\ pc = "fetch"
    /\ ~IsMytek(site)
    /\ requests' = Append(requests, Request(site, cat, page))
    /\ last_fetch' = "ok"
    /\ \E n \in 0..MaxDivs : divs_left' = n
    /\ page_products' = 0
    /\ pc' = "scan"
    /\ UNCHANGED <<site, cat, page, products, last_div>>
    /\ UNCHANGED <<mainVars, normVars>>

\* the request or the parse raises: the page loop's handler runs
FetchPageFails ==
    /\ pc = "fetch"
    /\ ~IsMytek(site)
    /\ requests' = Append(requests, Request(site, cat, page))
    /\ last_fetch' = "error"
    /\ Goto(AfterPageError(site, cat, page))
    /\ UNCHANGED <<site, divs_left, page_products, products, last_div>>
    /\ UNCHANGED <<mainVars, normVars>>

\* the divs in a fixed order, those of PipelineBlocks first; a page's div is
\* named by its position in this list
RECURSIVE SetToSeq(_)
SetToSeq(S) ==
    IF S = {} THEN <<>>
    ELSE LET x == CHOOSE y \in S : TRUE IN <<x>> \o SetToSeq(S \ {x})

AllDivs == SetToSeq(PipelineBlocks) \o SetToSeq(Blocks \ PipelineBlocks)

PipelineIds == 1..Cardinality(PipelineBlocks)

BlockIds == 1..Len(AllDivs)

\* a sequence given as a function, written out as a tuple
AsTuple(f) == SubSeq(f, 1, Len(f))

\* what the block body makes of each div, for each scraper and category entry
\* (ExtractRecord reads nothing else): Extracted[s][c][k]
Extracted ==
    AsTuple([s \in 1..NumSites |->
        AsTuple([c \in 1..Len(Categories(s)) |->
            AsTuple([k \in 1..Len(AllDivs) |->
                ExtractRecord(Scrapers[s].base_domain, Scrapers[s].site_name,
                              DenyOf(s), Categories(s)[c].name, AllDivs[k])])])])

\* one iteration of the div loop, on a div among those numbered in ids
EvaluateDiv(ids) ==
    \E k \in ids :
        LET out == Extracted[site][cat][k]
            appended == IF out.kind = "record"
                        THEN AppendUnique(products, out.product)
                        ELSE products
        IN  /\ last_div' = [kind |-> "div", id |-> k, site |-> site, cat |-> cat]
            /\ products' = appended
            /\ page_products' = IF Len(appended) > Len(products) /\ ~IsMytek(site)
                                THEN page_products + 1
                                ELSE page_products
            /\ divs_left' = IF out.kind = "raise"
                            THEN AfterBlockError(divs_left)
                            ELSE divs_left - 1

ScanDiv(ids) ==
    /\ pc = "scan"
    /\ ~IsMytek(site)
    /\ divs_left > 0
    /\ EvaluateDiv(ids)
    /\ UNCHANGED <<pc, site, cat, page, requests, last_fetch>>
    /\ UNCHANGED <<mainVars, normVars>>

\* the div loop is over: sleep, then stop the category on an empty later page
EndPage ==
    /\ pc = "scan"
    /\ ~IsMytek(site)
    /\ divs_left = 0
    /\ Goto(AfterScan(site, cat, page, page_products))
    /\ UNCHANGED <<site, divs_left, page_products, products, requests, last_fetch, last_div>>
    /\ UNCHANGED <<mainVars, normVars>>

\* return products
ReturnProducts ==
    /\ pc = "return"
    /\ ~IsMytek(site)
    /\ pc' = "returned"
    /\ UNCHANGED <<site, scrapeVars, mainVars, normVars>>

\* scrape_mytek: the driver starts
MytekSetup ==
    /\ pc = "setup"
    /\ Goto(IF Len(Categories(site)) > 0
            THEN [pc |-> "fetch", cat |-> 1, page |-> 1]
            ELSE [pc |-> "return", cat |-> 1, page |-> 1])
    /\ UNCHANGED <<site, divs_left, page_products, products, requests, last_fetch, last_div>>
    /\ UNCHANGED <<mainVars, normVars>>

\* scrape_mytek: the driver cannot start; the error leaves the function
MytekSetupFails ==
    /\ pc = "setup"
    /\ pc' = "failed"
    /\ UNCHANGED <<site, scrapeVars, mainVars, normVars>>

\* scrape_mytek: driver.get and the parse of page_source succeed
MytekLoad ==
    /\ pc = "fetch"
    /\ IsMytek(site)
    /\ requests' = Append(requests, Request(site, cat, page))
    /\ last_fetch' = "ok"
    /\ \E n \in 0..MaxDivs : divs_left' = n
    /\ pc' = "scan"
    /\ UNCHANGED <<site, cat, page, page_products, products, last_div>>
    /\ UNCHANGED <<mainVars, normVars>>

\* scrape_mytek: driver.get raises; logged, on to the next category
MytekLoadFails ==
    /\ pc = "fetch"
    /\ IsMytek(site)
    /\ requests' = Append(requests, Request(site, cat, page))
    /\ last_fetch' = "error"
    /\ Goto(NextCategory(site, cat))
    /\ UNCHANGED <<site, divs_left, page_products, products, last_div>>
    /\ UNCHANGED <<mainVars, normVars>>

MytekScanDiv(ids) ==
    /\ pc = "scan"
    /\ IsMytek(site)
    /\ divs_left > 0
    /\ EvaluateDiv(ids)
    /\ UNCHANGED <<pc, site, cat, page, requests, last_fetch>>
    /\ UNCHANGED <<mainVars, normVars>>

MytekEndPage ==
    /\ pc = "scan"
    /\ IsMytek(site)
    /\ divs_left = 0
    /\ Goto(NextCategory(site, cat))
    /\ UNCHANGED <<site, divs_left, page_products, products, requests, last_fetch, last_div>>
    /\ UNCHANGED <<mainVars, normVars>>

\* scrape_mytek: finally driver.quit(), then return products
MytekQuit ==
    /\ pc = "return"
    /\ IsMytek(site)
    /\ pc' = "returned"
    /\ UNCHANGED <<site, scrapeVars, mainVars, normVars>>

\* scrape_mytek: driver.quit() raises in the finally clause
MytekQuitFails ==
    /\ pc = "return"
    /\ IsMytek(site)
    /\ pc' = "failed"
    /\ UNCHANGED <<site, scrapeVars, mainVars, normVars>>

\* main(): all_products.extend(<site>_products)
Collect ==
    /\ pc = "returned"
    /\ all_products' = all_products \o products
    /\ IF site < NumSites
       THEN pc' = "call" /\ site' = site + 1
       ELSE pc' = "dedup" /\ site' = site
    /\ UNCHANGED <<scrapeVars, unique, csv_rows, normVars>>

\* main(): except Exception: logger.error(...)
LogSiteError ==
    /\ pc = "failed"
    /\ IF site < NumSites
       THEN pc' = "call" /\ site' = site + 1
       ELSE pc' = "dedup" /\ site' = site
    /\ UNCHANGED <<scrapeVars, mainVars, normVars>>

\* main(): the deduplication loop
DedupPass ==
    /\ pc = "dedup"
    /\ unique' = Deduplicate(all_products)
    /\ pc' = "export"
    /\ UNCHANGED <<site, scrapeVars, all_products, csv_rows, normVars>>

\* main(): export_csv(unique)
Export ==
    /\ pc = "export"
    /\ csv_rows' = [i \in 1..Len(unique) |-> CsvRow(unique[i])]
    /\ pc' = "done"
    /\ UNCHANGED <<site, scrapeVars, all_products, unique, normVars>>

Next ==
    \/ CallScraper
    \/ FetchPage
    \/ FetchPageFails
    \/ ScanDiv(PipelineIds)
    \/ EndPage
    \/ ReturnProducts
    \/ MytekSetup
    \/ MytekSetupFails
    \/ MytekLoad
    \/ MytekLoadFails
    \/ MytekScanDiv(PipelineIds)
    \/ MytekEndPage
    \/ MytekQuit
    \/ MytekQuitFails
    \/ Collect
    \/ LogSiteError
    \/ DedupPass
    \/ Export

Spec == Init /\ [][Next]_vars

\* every step main() can take is taken in the end
FairSpec == Spec /\ WF_vars(Next)

(***************************************************************************)
(* One page on its own: the div loop over a freshly fetched first page,     *)
(* whose divs are drawn from Blocks                                         *)
(***************************************************************************)
InitPage ==
    /\ pc = "scan"
    /\ site \in 1..NumSites
    /\ cat = 1
    /\ page = 1
    /\ divs_left \in 1..MaxDivs
    /\ page_products = 0
    /\ products = <<>>
    /\ requests = <<Request(site, 1, 1)>>
    /\ last_fetch = "ok"
    /\ last_div = NoDiv
    /\ all_products = <<>>
    /\ unique = <<>>
    /\ csv_rows = <<>>
    /\ norm_in = <<>>
    /\ norm_out = [fn |-> "none", res |-> None]

NextOnPage == ScanDiv(BlockIds) \/ MytekScanDiv(BlockIds)

SpecPage == InitPage /\ [][NextOnPage]_vars

(***************************************************************************)
(* The normalizers on their own: every text up to MaxNormLen characters     *)
(***************************************************************************)
MaxNormLen == 3

NormAlphabet == {"0", "1", "5", "6", ".", ",", " ", "x"}

RECURSIVE TextsUpTo(_, _)
TextsUpTo(A, k) ==
    IF k = 0 THEN {<<>>}
    ELSE LET shorter == TextsUpTo(A, k - 1)
         IN  shorter \cup {Append(t, c) : t \in shorter, c \in A}

\* longer texts of the kinds the block body hands over
LongTexts == {<<"1", ".", "2", "9", "9", ",", "0", "0", "0", " ">>, <<"1", "2", "9", ".", "9", "0", "0", " ">>, <<"1", "0", "0", "0", "0", "0", ",", "5">>, <<"0", ",", "0", "0", "0">>,
              <<"N", "o", "t", "e", " ", "4", ".", "5", "/", "5">>, <<"N", "o", "t", "e", " ", "1", "0", "/", "1", "0">>, <<"1", "2", " ", "a", "v", "i", "s">>, <<"(", "1", " ", "2", "9", "9", ")">>}

NormTexts == TextsUpTo(NormAlphabet, MaxNormLen) \cup LongTexts

InitNorm ==
    /\ pc = "normalize"
    /\ Idle
    /\ norm_in \in NormTexts
    /\ norm_out = [fn |-> "none", res |-> None]

CallCleanPrice ==
    /\ norm_out.fn = "none"
    /\ norm_out' = [fn |-> "clean_price", res |-> clean_price(norm_in)]
    /\ UNCHANGED <<norm_in, pc, site, scrapeVars, mainVars>>

CallCleanRating ==
    /\ norm_out.fn = "none"
    /\ norm_out' = [fn |-> "clean_rating", res |-> clean_rating(norm_in)]
    /\ UNCHANGED <<norm_in, pc, site, scrapeVars, mainVars>>

CallCleanReviewCount ==
    /\ norm_out.fn = "none"
    /\ norm_out' = [fn |-> "clean_review_count", res |-> clean_review_count(norm_in)]
    /\ UNCHANGED <<norm_in, pc, site, scrapeVars, mainVars>>

NextNorm == CallCleanPrice \/ CallCleanRating \/ CallCleanReviewCount

SpecNorm == InitNorm /\ [][NextNorm]_vars

\* C6: each normalizer returns None or a value of its range, and none raises:
\* clean_price a value > 0, clean_rating a value in [0, 5], clean_review_count
\* a non-negative integer.
C6_NormalizersTotalAndRanged ==
    /\ norm_out.fn = "clean_price" =>
          \/ norm_out.res = None
          \/ IsFloat(norm_out.res) /\ NumGt(norm_out.res, 0)
    /\ norm_out.fn = "clean_rating" =>
          \/ norm_out.res = None
          \/ IsFloat(norm_out.res) /\ NumGe(norm_out.res, 0) /\ NumLe(norm_out.res, 5)
    /\ norm_out.fn = "clean_review_count" =>
          \/ norm_out.res = None
          \/ IsInt(norm_out.res)

\* a text with several separators ("1.299,000 ") was handed to clean_price,
\* which returned None
C6_Witness ==
    /\ norm_in = <<"1", ".", "2", "9", "9", ",", "0", "0", "0", " ">>
    /\ norm_out.fn = "clean_price"
    /\ norm_out.res = None
(***************************************************************************)
(* Properties of main() and of the harvesting loops                         *)
(***************************************************************************)
Links(list) == {list[i].Lien : i \in 1..Len(list)}

NoTwoWithOneLink(list) ==
    \A i, j \in 1..Len(list) : i # j => list[i].Lien # list[j].Lien

\* the position in list of the first record with the link
FirstWith(list, link) ==
    CHOOSE i \in 1..Len(list) :
        list[i].Lien = link /\ \A m \in 1..(i - 1) : list[m].Lien # link

Deduplicated == pc \in {"export", "done"}

\* C1: the list handed to export_csv holds no two records with one link, holds
\* a record for every link of the concatenated list, that record being the
\* first with the link in the concatenation, and keeps the concatenation's order.
C1_DedupKeepsFirstInOrder ==
    Deduplicated =>
        /\ NoTwoWithOneLink(unique)
        /\ Links(unique) = Links(all_products)
        /\ \A k \in 1..Len(unique) :
              unique[k] = all_products[FirstWith(all_products, unique[k].Lien)]
        /\ \A k, m \in 1..Len(unique) :
              k < m => FirstWith(all_products, unique[k].Lien)
                         < FirstWith(all_products, unique[m].Lien)

\* two scrapers found one link under different categories, and the pass kept
\* the record found first
C1_Witness ==
    /\ pc = "done"
    /\ \E i, j \in 1..Len(all_products) :
          /\ i < j
          /\ all_products[i].Lien = all_products[j].Lien
          /\ all_products[i].Categorie # all_products[j].Categorie
          /\ all_products[i].Site # all_products[j].Site
          /\ \E k \in 1..Len(unique) : unique[k] = all_products[i]
    /\ Len(csv_rows) = Len(unique)

\* C8: the final pass applied to its own output returns that output unchanged.
C8_DedupIdempotent ==
    Deduplicated => Deduplicate(unique) = unique

\* the pass dropped two records in a row and kept at least two
C8_Witness ==
    /\ pc = "export"
    /\ Len(unique) >= 2
    /\ Len(all_products) >= Len(unique) + 2

(***************************************************************************)
(* The div evaluated last                                                   *)
(***************************************************************************)
Evaluated == last_div.kind = "div"

LastDiv == AllDivs[last_div.id]

LastOut == Extracted[last_div.site][last_div.cat][last_div.id]

\* a step of the div loop
DivStep == pc = "scan" /\ pc' = "scan" /\ divs_left' # divs_left

\* C7: a block whose evaluation raises adds no record and leaves the list as it
\* was, the next block of the page is evaluated, and neither the page loop's
\* handler nor the caller sees the error; a page is left only with no div left.
C7_BlockErrorStaysLocal ==
    [][
        /\ (pc = "scan" /\ divs_left > 0) => pc' = "scan"
        /\ (DivStep /\ LastOut'.kind = "raise") =>
              /\ products' = products
              /\ page_products' = page_products
              /\ divs_left' = divs_left - 1
              /\ requests' = requests
              /\ <<site, cat, page>>' = <<site, cat, page>>
    ]_vars

\* a block raised after a record was kept, and a div of the page is still to
\* be evaluated
C7_Witness ==
    /\ pc = "scan"
    /\ Evaluated
    /\ LastOut.kind = "raise"
    /\ Len(products) > 0
    /\ divs_left > 0

\* C9: a scraper's list never holds two records with one link; while the
\* scraper runs the list only grows, by one record at its end, whose link was
\* not in it; a block whose link is in the list leaves the list unchanged.
C9_ListAppendOnlyUniqueLinks ==
    /\ [] NoTwoWithOneLink(products)
    /\ [][
          /\ (pc # "call") =>
                \/ products' = products
                \/ /\ Len(products') = Len(products) + 1
                   /\ SubSeq(products', 1, Len(products)) = products
                   /\ products'[Len(products')].Lien \notin Links(products)
                   /\ DivStep
          /\ (DivStep /\ LastOut'.kind = "record"
                      /\ LastOut'.product.Lien \in Links(products)) =>
                products' = products
          /\ (DivStep /\ LastOut'.kind = "record"
                      /\ LastOut'.product.Lien \notin Links(products)) =>
                products' = Append(products, LastOut'.product)
       ]_vars

\* the block evaluated last built a record whose link the list already held
\* under another category, and the list kept the earlier record alone
C9_Witness ==
    /\ Evaluated
    /\ pc = "scan"
    /\ LastOut.kind = "record"
    /\ \E i \in 1..Len(products) :
          /\ products[i].Lien = LastOut.product.Lien
          /\ products[i].Categorie # LastOut.product.Categorie
    /\ \A i \in 1..Len(products) : products[i] # LastOut.product

(***************************************************************************)
(* Page requests of scrape_site_extended                                    *)
(***************************************************************************)
RequestsOf(s) == SelectSeq(requests, LAMBDA r : r.site = s)

\* a step in which a page request of scrape_site_extended fails
PageFailStep == pc = "fetch" /\ ~IsMytek(site) /\ pc' # "scan"

\* the scraper of site s has handed its list back, or its error, to main()
Ended(s) == site > s \/ pc \in {"returned", "failed", "dedup", "export", "done"}

\* C10: a failed page is not requested again, the list is kept, and the next
\* page of the same category is requested next; no page of a category entry is
\* requested twice; a scraper makes at most entries x pages_per_cat requests
\* and ends.
C10_PageFailureSkipsPage ==
    /\ [][
          PageFailStep =>
              /\ products' = products
              /\ Len(requests') = Len(requests) + 1
              /\ requests'[Len(requests')] = Request(site, cat, page)
              /\ site' = site
              /\ (page < PagesPerCat(site)) =>
                    (pc' = "fetch" /\ cat' = cat /\ page' = page + 1)
       ]_vars
    /\ [] (\A i, j \in 1..Len(requests) :
              (i # j) => <<requests[i].site, requests[i].cat, requests[i].page>>
                          # <<requests[j].site, requests[j].cat, requests[j].page>>)
    /\ [] (\A s \in 1..NumSites :
              Len(RequestsOf(s)) <= Len(Categories(s)) * PagesPerCat(s))
    /\ \A s \in 1..NumSites : <>Ended(s)

\* the first page of a category failed after a record was kept: the record is
\* still in the list and the second page is the one to request
C10_Witness ==
    /\ pc = "fetch"
    /\ ~IsMytek(site)
    /\ page = 2
    /\ Len(products) > 0
    /\ Len(requests) > 0
    /\ requests[Len(requests)] = Request(site, cat, 1)
    /\ last_fetch = "error"

(***************************************************************************)
(* Properties of the block body, on one page whose divs are drawn from      *)
(* Blocks                                                                   *)
(***************************************************************************)
\* the link the body resolves for each div of each scraper, when it gets that far
DivLink ==
    AsTuple([s \in 1..NumSites |->
        AsTuple([k \in 1..Len(AllDivs) |->
            IF AllDivs[k].link_tag = None THEN None
            ELSE Urljoin(Scrapers[s].base_domain, AllDivs[k].link_tag.v.href)])])

\* C2: no record in a scraper's list, whichever extraction path built it, has a
\* link matching a pattern of the denylist '#', 'javascript', 'store/',
\* 'add-to-cart', 'categorie'; a block whose resolved link matches one yields
\* no record.
C2_NoDeniedLinkEmitted ==
    /\ \A i \in 1..Len(products) : ~LinkDenied(DenySite, products[i].Lien)
    /\ Evaluated =>
          LET link == DivLink[last_div.site][last_div.id]
          IN  (link # None /\ link # ValueError /\ LinkDenied(DenySite, link.v))
                  => LastOut.kind # "record"

\* the price the body normalizes for each div: None when the text has no
\* monetary substring or the substring does not parse
DivPrice ==
    AsTuple([k \in 1..Len(AllDivs) |->
        LET price_match == PriceSearch(AllDivs[k].text.head)
        IN  IF price_match = None THEN None ELSE clean_price(price_match.g)])

\* the block got as far as the price test
ReachedPriceGate(out) == out.kind = "record" \/ out = Skip("price_range")

AboveOne(price) == price # None /\ NumGt(price, MinPrice) /\ NumLe(price, MaxPrice)

FromOne(price) == price # None /\ NumGe(price, MinPrice) /\ NumLe(price, MaxPrice)

\* C3 as stated: every record's price is in (1, 100000]; a block whose price
\* is 1 or less, above 100000 or unparseable yields no record, and a block
\* with a price in (1, 100000] that reaches the price test yields one.
C3_PriceAboveOne ==
    /\ \A i \in 1..Len(products) : AboveOne(products[i].Prix)
    /\ Evaluated =>
          /\ ~AboveOne(DivPrice[last_div.id]) => LastOut.kind # "record"
          /\ (ReachedPriceGate(LastOut) /\ AboveOne(DivPrice[last_div.id]))
                => LastOut.kind = "record"

\* C3, amended: every record's price is in [1, 100000]; a block whose price is
\* less than 1, above 100000 or unparseable yields no record, and a block with
\* a price in [1, 100000] that reaches the price test yields a record with
\* that price.
C3_PriceFromOne ==
    /\ \A i \in 1..Len(products) : FromOne(products[i].Prix)
    /\ Evaluated =>
          /\ ~FromOne(DivPrice[last_div.id]) => LastOut.kind # "record"
          /\ (ReachedPriceGate(LastOut) /\ FromOne(DivPrice[last_div.id]))
                => /\ LastOut.kind = "record"
                   /\ LastOut.product.Prix = DivPrice[last_div.id]

\* a block priced exactly 1 was evaluated and its record is in the list
C3_Witness ==
    /\ Evaluated
    /\ DivPrice[last_div.id] = Float(1, 1)
    /\ LastOut.kind = "record"
    /\ \E i \in 1..Len(products) :
          products[i] = LastOut.product /\ products[i].Prix = Float(1, 1)

\* the div with its text cut or padded to a middle length
Resized(div) == [div EXCEPT !.text = Text(div.text.head, MidLen)]

\* what the body makes of each div once resized: the verdict of the gates
\* other than the length test
ResizedOut ==
    AsTuple([s \in 1..NumSites |->
        AsTuple([c \in 1..Len(Categories(s)) |->
            AsTuple([k \in 1..Len(AllDivs) |->
                ExtractRecord(Scrapers[s].base_domain, Scrapers[s].site_name,
                              DenyOf(s), Categories(s)[c].name,
                              Resized(AllDivs[k]))])])])

\* C4: a block that passes every other gate yields its record when its text
\* length is 20, 1500 or between, and a block of length 19 or less, or 1501 or
\* more, yields none.
C4_TextLengthInclusive ==
    Evaluated =>
        LET n     == TextLen(LastDiv.text)
            other == ResizedOut[last_div.site][last_div.cat][last_div.id]
        IN  /\ (n >= MinTextLen /\ n <= MaxTextLen) => LastOut = other
            /\ (n < MinTextLen \/ n > MaxTextLen) => LastOut.kind # "record"

\* a block of text length exactly 20 was evaluated and its record is in the list
C4_Witness ==
    /\ Evaluated
    /\ TextLen(LastDiv.text) = MinTextLen
    /\ LastOut.kind = "record"
    /\ Len(products) > 0
    /\ products[Len(products)] = LastOut.product

\* the name the body derives for each div with a link
DivName ==
    AsTuple([k \in 1..Len(AllDivs) |->
        IF AllDivs[k].link_tag = None THEN None ELSE Some(DeriveName(AllDivs[k]))])

\* a name too short or too long, a UI-chrome phrase in any case, or a bare
\* percentage
Implausible(name) ==
    \/ Len(name) < MinNameLen
    \/ Len(name) > MaxNameLen
    \/ \E phrase \in UIChrome : LowerStr(name) = phrase
    \/ IsPercent(name)

\* the div with the base heading as its name element
Renamed(div) == [div EXCEPT !.heading = Some(BaseName)]

\* what the body makes of each div once renamed: the verdict of the gates
\* other than the name tests
RenamedOut ==
    AsTuple([s \in 1..NumSites |->
        AsTuple([c \in 1..Len(Categories(s)) |->
            AsTuple([k \in 1..Len(AllDivs) |->
                ExtractRecord(Scrapers[s].base_domain, Scrapers[s].site_name,
                              DenyOf(s), Categories(s)[c].name,
                              Renamed(AllDivs[k]))])])])

\* C5: a block whose derived name is shorter than 5 or longer than 250, is a
\* UI-chrome phrase in any case, or is a bare percentage yields no record,
\* whatever its price and link; no record has such a name; and a block with
\* any other name, of length 5 to 250, that passes the other gates yields a
\* record with that name.
C5_NamePlausibility ==
    /\ \A i \in 1..Len(products) : ~Implausible(products[i].Nom)
    /\ (Evaluated /\ DivName[last_div.id] # None) =>
          LET name  == DivName[last_div.id].v
              other == RenamedOut[last_div.site][last_div.cat][last_div.id]
          IN  /\ Implausible(name) => LastOut.kind # "record"
              /\ (~Implausible(name) /\ other.kind = "record") =>
                    /\ LastOut.kind = "record"
                    /\ LastOut.product.Nom = name

\* a block named "COMPARE", with a valid price and link, was evaluated after a
\* record was kept, and was rejected by the chrome test
C5_Witness ==
    /\ Evaluated
    /\ DivName[last_div.id] = Some(<<"C", "O", "M", "P", "A", "R", "E">>)
    /\ RenamedOut[last_div.site][last_div.cat][last_div.id].kind = "record"
    /\ LastOut = Skip("name_chrome")
    /\ Len(products) > 0

(***************************************************************************)
(* Pagination of scrape_site_extended                                       *)
(***************************************************************************)
PlainSites == {s \in 1..NumSites : ~IsMytek(s)}

\* a step in which a page of scrape_site_extended is fetched and parsed
PageOkStep == pc = "fetch" /\ ~IsMytek(site) /\ pc' = "scan"

\* a step that ends a scanned page of scrape_site_extended
PageEndStep == pc = "scan" /\ ~IsMytek(site) /\ pc' # "scan"

\* the requests of a category entry start at page 1 and go up one page at a
\* time, and a category entry left is not requested again
RequestedInOrder ==
    \A i \in 1..Len(requests) :
        requests[i].site \in PlainSites =>
            IF /\ i > 1
               /\ requests[i - 1].site = requests[i].site
               /\ requests[i - 1].cat = requests[i].cat
            THEN requests[i].page = requests[i - 1].page + 1
            ELSE /\ requests[i].page = 1
                 /\ \A j \in 1..(i - 1) :
                       requests[j].site = requests[i].site
                           => requests[j].cat < requests[i].cat

\* the category loop of scraper s is past entry c
LeftEntry(s, c) == site > s \/ (site = s /\ pc # "call" /\ cat > c)

Requested(s, c, p) ==
    \E i \in 1..Len(requests) :
        requests[i].site = s /\ requests[i].cat = c /\ requests[i].page = p

\* C11: the pages of a category entry are requested in increasing order from
\* page 1; the count a page ends with is the number of records the page added
\* to the list; a scanned page after the first that added none ends the
\* category entry, whose later pages are never requested; any other scanned
\* page, the first included, is followed by the next page of the entry while
\* one is left; and page 2 of every entry is requested when pages_per_cat >= 2.
C11_PaginationEarlyStop ==
    /\ [] RequestedInOrder
    /\ [][
          /\ PageOkStep => page_products' = 0
          /\ (DivStep /\ ~IsMytek(site)) =>
                page_products' - page_products = Len(products') - Len(products)
          /\ (PageEndStep /\ page > 1 /\ page_products = 0) =>
                /\ cat' = cat + 1
                /\ page' = 1
                /\ pc' \in {"fetch", "return"}
                /\ requests' = requests
          /\ (PageEndStep /\ (page = 1 \/ page_products > 0)
                          /\ page < PagesPerCat(site)) =>
                /\ pc' = "fetch"
                /\ cat' = cat
                /\ page' = page + 1
       ]_vars
    /\ [] (\A s \in PlainSites : \A c \in 1..Len(Categories(s)) :
              (PagesPerCat(s) >= 2 /\ LeftEntry(s, c)) => Requested(s, c, 2))
    /\ <> (\A s \in PlainSites : \A c \in 1..Len(Categories(s)) :
              (PagesPerCat(s) >= 2) => Requested(s, c, 2))

\* the second page of the first category entry was scanned and added nothing
\* to a list that holds a record, and the next request is page 1 of the
\* second entry although a third page was left
C11_Witness ==
    /\ pc = "fetch"
    /\ site \in PlainSites
    /\ cat = 2
    /\ page = 1
    /\ PagesPerCat(site) > 2
    /\ requests = <<Request(site, 1, 1), Request(site, 1, 2)>>
    /\ last_fetch = "ok"
    /\ page_products = 0
    /\ Len(products) > 0
    /\ Evaluated
    /\ last_div.cat = 1
    /\ LastOut.kind = "record"
====
